---- MODULE Spec2Model ----
(***************************************************************************)
(* pyAGC: memory map, interrupt controller, reset, core-rope loader and    *)
(* cycle timer of the Apollo Guidance Computer emulator, as state machines.*)
(*                                                                         *)
(* numpy arrays are modelled sparsely: an array is a function from the     *)
(* indices of its non-zero elements to their values, every other element   *)
(* reads 0 (np.zeros).  A view (unswitched, fixed_fixed) is an index       *)
(* translation into the array it shares its buffer with.                   *)
(***************************************************************************)
EXTENDS Integers, Sequences, FiniteSets, TLC

VARIABLES
    switched,            \* _Memory.switched      : <<bank, addr>> -> int16
    common_fixed,        \* _Memory.common_fixed  : <<bank, addr>> -> int16
    parities,            \* Cpu.parities          : cell index -> set of bits set
    extracode_flag,      \* Cpu.extracode_flag
    check_parity_flag,   \* Cpu.check_parity_flag
    irq_enable,          \* _Interrupts.enable
    reg_B,               \* _Registers.B, written by _Interrupts.process
    last,                \* the last operation called, its arguments and outcome
    io,                  \* Cpu.io: whether channel1 and channel2 view the
                         \* array mem.switched now is and, when they do
                         \* not, the array they view
    ld,                  \* a load_core_rope call in progress: its file, its
                         \* locals, and the memory it found when it began
    now,                 \* the value time_ns() returns
    elapsed_time_ns,     \* _Timer.elapsed_time_ns
    cycle_start_time_ns, \* _Timer.cycle_start_time_ns
    added_cycle,         \* _Timer.added_cycle
    elapsed_wait,        \* _Timer.elapsed_wait
    total_cycle_time,    \* _Timer.total_cycle_time
    tpc,                 \* position of the timer's caller: "idle" or "wait"
    start_wait,          \* wait_cycle's local start_wait
    wait_nb,             \* wait_cycle's argument nb_cycle
    tlast,               \* the last timer call, what it read and returned
    true_at              \* history: clock read by the last do_cycle that
                         \* returned True, -1 before the first

cpuVars == <<switched, common_fixed, parities, extracode_flag,
             check_parity_flag, irq_enable, reg_B, last, io, ld>>
timerVars == <<now, elapsed_time_ns, cycle_start_time_ns, added_cycle,
               elapsed_wait, total_cycle_time, tpc, start_wait, wait_nb, tlast,
               true_at>>
vars == <<cpuVars, timerVars>>

(***************************************************************************)
(* Program constants                                                       *)
(***************************************************************************)
erasable_words == 256        \* 0o400
switched_banks == 8
fixed_words == 1024          \* 0o2000
common_fixed_banks == 40
unswitched_len == erasable_words * 3     \* unswitched.shape[0]
fixed_fixed_len == fixed_words * 2       \* fixed_fixed.shape[0]

\* register addresses (registers.py)
Reg_A == 0
Reg_L == 1
Reg_Q == 2
Reg_Z == 5
Reg_ARUPT == 8               \* 0o10
Reg_LRUPT == 9               \* 0o11
Reg_QRUPT == 10              \* 0o12
Reg_ZRUPT == 13              \* 0o15
Reg_BBRUPT == 14             \* 0o16
Reg_CYR == 16                \* 0o20
Reg_CYL == 18                \* 0o22
Reg_EDOP == 19               \* 0o23
Reg_BRUPT == 15              \* 0o17
BOOT == 2048                 \* 0o4000

(***************************************************************************)
(* numpy arrays                                                            *)
(***************************************************************************)
\* np.zeros(...)
Zeros == [c \in {} |-> 0]

\* a[c]
Peek(a, c) == IF c \in DOMAIN a THEN a[c] ELSE 0

\* a[c] = v
Poke(a, c, v) ==
    IF v = 0
    THEN [d \in (DOMAIN a) \ {c} |-> a[d]]
    ELSE [d \in (DOMAIN a) \cup {c} |-> IF d = c THEN v ELSE a[d]]

\* a[c] of an array of bit sets
PeekBits(a, c) == IF c \in DOMAIN a THEN a[c] ELSE {}

\* a plausible slip: the view taken over switched[1:4] instead of [0:3]
UnswitchedCellShifted(i) == <<(i \div erasable_words) + 1, i % erasable_words>>

\* unswitched = squeeze(reshape(switched[0:3], (1, erasable_words * 3))):
\* element i of the view is element (i div 0o400, i mod 0o400) of switched
UnswitchedCell(i) == <<i \div erasable_words, i % erasable_words>>

\* a plausible slip: the view taken over common_fixed[0:2] instead of [2:4]
FixedFixedCellFromZero(i) == <<i \div fixed_words, i % fixed_words>>

\* fixed_fixed = squeeze(reshape(common_fixed[2:4], (1, fixed_words * 2))):
\* element i of the view is element (2 + i div 0o2000, i mod 0o2000)
FixedFixedCell(i) == <<2 + (i \div fixed_words), i % fixed_words>>

(***************************************************************************)
(* Memory locations: the loc argument of __getitem__ / __setitem__         *)
(*   tuple : isinstance(loc, tuple)                                        *)
(*   len   : len(loc)                                                      *)
(*   bank, addr, type : the unpacked items (bank only when len = 3)        *)
(*   isint : addr is an integer (a slice object is not)                    *)
(***************************************************************************)
Loc3(bank, addr, type) ==
    [tuple |-> TRUE, len |-> 3, bank |-> bank, addr |-> addr,
     isint |-> TRUE, type |-> type]
Loc2(addr, type) ==
    [tuple |-> TRUE, len |-> 2, bank |-> 0, addr |-> addr,
     isint |-> TRUE, type |-> type]
\* mem[n] : a bare integer, not a tuple
LocInt(n) ==
    [tuple |-> FALSE, len |-> 0, bank |-> 0, addr |-> n,
     isint |-> TRUE, type |-> "none"]
\* mem[lo:hi, type] : a 2-tuple whose first item is a slice object
LocSlice(lo, type) ==
    [tuple |-> TRUE, len |-> 2, bank |-> 0, addr |-> lo,
     isint |-> FALSE, type |-> type]

\* bank = None after unpacking a 2-tuple
BankIsNone(loc) == loc.len = 2
\* Python's "not bank": true of None and of 0
NotBank(loc) == BankIsNone(loc) \/ loc.bank = 0
\* Python's "bank in range(n)": false of None
BankInRange(loc, n) == ~BankIsNone(loc) /\ loc.bank \in 0..(n - 1)
\* Python's "addr in range(lo, hi)": false of a slice
AddrInRange(loc, lo, hi) == loc.isint /\ loc.addr \in lo..(hi - 1)

NoCell == <<-1, -1>>

\* _Memory.__getitem__: [err, val, arr, cell]
MemGetitem(sw, cf, loc) ==
    IF ~loc.tuple
    THEN [err |-> "TypeError", val |-> 0, arr |-> "none", cell |-> NoCell]
    ELSE IF loc.len \notin {2, 3}
    THEN [err |-> "ValueError", val |-> 0, arr |-> "none", cell |-> NoCell]
    ELSE IF loc.type = "erasable"
    THEN IF AddrInRange(loc, 0, unswitched_len) /\ NotBank(loc)
         THEN [err |-> "none", val |-> Peek(sw, UnswitchedCell(loc.addr)),
               arr |-> "switched", cell |-> UnswitchedCell(loc.addr)]
         ELSE IF BankInRange(loc, switched_banks)
                 /\ AddrInRange(loc, 0, erasable_words)
         THEN [err |-> "none", val |-> Peek(sw, <<loc.bank, loc.addr>>),
               arr |-> "switched", cell |-> <<loc.bank, loc.addr>>]
         ELSE [err |-> "ValueError", val |-> 0, arr |-> "none", cell |-> NoCell]
    ELSE IF loc.type = "fixed"
    THEN IF AddrInRange(loc, fixed_words, fixed_fixed_len) /\ NotBank(loc)
         THEN [err |-> "none",
               val |-> Peek(cf, FixedFixedCell(loc.addr - fixed_words)),
               arr |-> "common_fixed",
               cell |-> FixedFixedCell(loc.addr - fixed_words)]
         ELSE IF BankInRange(loc, common_fixed_banks)
                 /\ AddrInRange(loc, 0, fixed_words)
         THEN [err |-> "none", val |-> Peek(cf, <<loc.bank, loc.addr>>),
               arr |-> "common_fixed", cell |-> <<loc.bank, loc.addr>>]
         ELSE [err |-> "ValueError", val |-> 0, arr |-> "none", cell |-> NoCell]
    ELSE [err |-> "ValueError", val |-> 0, arr |-> "none", cell |-> NoCell]

\* _Memory.__setitem__: [err, sw, cf, arr, cell], sw and cf the arrays afterwards
MemSetitem(sw, cf, loc, value) ==
    IF ~loc.tuple
    THEN [err |-> "TypeError", sw |-> sw, cf |-> cf,
          arr |-> "none", cell |-> NoCell]
    ELSE IF loc.len \notin {2, 3}
    THEN [err |-> "ValueError", sw |-> sw, cf |-> cf,
          arr |-> "none", cell |-> NoCell]
    ELSE IF loc.type = "erasable"
    THEN IF AddrInRange(loc, 0, unswitched_len) /\ NotBank(loc)
         THEN [err |-> "none",
               sw |-> Poke(sw, UnswitchedCell(loc.addr), value), cf |-> cf,
               arr |-> "switched", cell |-> UnswitchedCell(loc.addr)]
         ELSE IF BankInRange(loc, switched_banks)
                 /\ AddrInRange(loc, 0, erasable_words)
         THEN [err |-> "none",
               sw |-> Poke(sw, <<loc.bank, loc.addr>>, value), cf |-> cf,
               arr |-> "switched", cell |-> <<loc.bank, loc.addr>>]
         ELSE [err |-> "ValueError", sw |-> sw, cf |-> cf,
               arr |-> "none", cell |-> NoCell]
    ELSE IF loc.type = "fixed"
    THEN IF AddrInRange(loc, fixed_words, fixed_fixed_len) /\ NotBank(loc)
         THEN [err |-> "none", sw |-> sw,
               cf |-> Poke(cf, FixedFixedCell(loc.addr - fixed_words), value),
               arr |-> "common_fixed",
               cell |-> FixedFixedCell(loc.addr - fixed_words)]
         ELSE IF BankInRange(loc, common_fixed_banks)
                 /\ AddrInRange(loc, 0, fixed_words)
         THEN [err |-> "none", sw |-> sw,
               cf |-> Poke(cf, <<loc.bank, loc.addr>>, value),
               arr |-> "common_fixed", cell |-> <<loc.bank, loc.addr>>]
         ELSE [err |-> "ValueError", sw |-> sw, cf |-> cf,
               arr |-> "none", cell |-> NoCell]
    ELSE [err |-> "ValueError", sw |-> sw, cf |-> cf,
          arr |-> "none", cell |-> NoCell]

(***************************************************************************)
(* _Interrupts.process                                                     *)
(***************************************************************************)
T6RUPT == 2052               \* 0o4004

\* a plausible slip: B set and the controller disabled before the saves
ProcessEnabledInhibitsFirst(sw, cf, B, intrpt) ==
    LET g1 == MemGetitem(sw, cf, LocInt(Reg_Z))
    IN  [err |-> g1.err, ret |-> "none", sw |-> sw, cf |-> cf,
         B |-> intrpt, enable |-> FALSE]

\* a plausible slip: the enabled branch first saves A into ARUPT, as the
\* comment of registers.py on ARUPT suggests, and then goes on as the code
ProcessEnabledSavesA(sw, cf, B, intrpt) ==
    LET a == MemGetitem(sw, cf, Loc2(Reg_A, "erasable"))
        s0 == MemSetitem(sw, cf, Loc2(Reg_ARUPT, "erasable"), a.val)
        g1 == MemGetitem(s0.sw, s0.cf, LocInt(Reg_Z))
    IN  [err |-> g1.err, ret |-> "none", sw |-> s0.sw, cf |-> s0.cf,
         B |-> B, enable |-> TRUE]

\* The statements of the enabled branch, in order; an exception raised by a
\* statement ends the call with the assignments made so far.
\*   self.mem[self.reg.ZRUPT] = self.mem[self.reg.Z]
\*   self.mem[self.reg.BRUPT] = self.mem[self.mem[self.reg.Z]]
\*   self.reg.B = intrpt ; self.enable = False ; return True
\* Result: [err, ret, sw, cf, B, enable]
ProcessEnabled(sw, cf, B, intrpt) ==
    LET raise(e, sw1, cf1) ==
            [err |-> e, ret |-> "none", sw |-> sw1, cf |-> cf1,
             B |-> B, enable |-> TRUE]
        g1 == MemGetitem(sw, cf, LocInt(Reg_Z))
    IN  IF g1.err # "none" THEN raise(g1.err, sw, cf)
        ELSE
        LET s1 == MemSetitem(sw, cf, LocInt(Reg_ZRUPT), g1.val)
        IN  IF s1.err # "none" THEN raise(s1.err, sw, cf)
        ELSE
        LET g2 == MemGetitem(s1.sw, s1.cf, LocInt(Reg_Z))
        IN  IF g2.err # "none" THEN raise(g2.err, s1.sw, s1.cf)
        ELSE
        LET g3 == MemGetitem(s1.sw, s1.cf, LocInt(g2.val))
        IN  IF g3.err # "none" THEN raise(g3.err, s1.sw, s1.cf)
        ELSE
        LET s2 == MemSetitem(s1.sw, s1.cf, LocInt(Reg_BRUPT), g3.val)
        IN  IF s2.err # "none" THEN raise(s2.err, s1.sw, s1.cf)
        ELSE [err |-> "none", ret |-> "True", sw |-> s2.sw, cf |-> s2.cf,
              B |-> intrpt, enable |-> FALSE]

\* a plausible slip: a denied request still records its vector in B
ProcessCallDeniedSetsB(sw, cf, B, enable, intrpt) ==
    IF enable
    THEN ProcessEnabled(sw, cf, B, intrpt)
    ELSE [err |-> "none", ret |-> "False", sw |-> sw, cf |-> cf,
          B |-> intrpt, enable |-> enable]

\* a plausible slip: a denied request releases the inhibition
ProcessCallDeniedEnables(sw, cf, B, enable, intrpt) ==
    IF enable
    THEN ProcessEnabled(sw, cf, B, intrpt)
    ELSE [err |-> "none", ret |-> "False", sw |-> sw, cf |-> cf,
          B |-> B, enable |-> TRUE]

\* _Interrupts.process(intrpt)
ProcessCall(sw, cf, B, enable, intrpt) ==
    IF enable
    THEN ProcessEnabled(sw, cf, B, intrpt)
    ELSE [err |-> "none", ret |-> "False", sw |-> sw, cf |-> cf,
          B |-> B, enable |-> enable]

(***************************************************************************)
(* Cpu.cpu_reset                                                           *)
(***************************************************************************)
\* a plausible slip: reset re-creates neither array (the old content stays)
CpuResetKeepsErasable(sw, cf, par, extracode, parity, enable) ==
    [err |-> "ValueError", sw |-> sw, cf |-> cf, par |-> par,
     extracode |-> extracode, parity |-> parity, enable |-> enable]

\* a plausible slip: reset re-creates the fixed arrays and the bitmap too
CpuResetClearsFixed(sw, cf, par, extracode, parity, enable) ==
    [err |-> "ValueError", sw |-> Zeros, cf |-> Zeros, par |-> Zeros,
     extracode |-> extracode, parity |-> parity, enable |-> enable]

\* Result: [err, sw, cf, par, extracode, parity, enable]
\*   self.mem.switched = np.zeros(...) ; self.mem.unswitched = view of it
\*   self.mem[self.reg.Z, 'erasable']
\*   self.io = _IO_channels(self.mem[L:L+1, 'erasable'], self.mem[Q:Q+1, ...])
\*   self.extracode_flag = False ; self.check_parity_flag = False
\*   self.irq.enable = True
\* An exception raised by a statement ends the call with the assignments
\* made so far.
CpuResetCall(sw, cf, par, extracode, parity, enable) ==
    LET sw0 == Zeros
        raise(e) == [err |-> e, sw |-> sw0, cf |-> cf, par |-> par,
                     extracode |-> extracode, parity |-> parity,
                     enable |-> enable]
        gZ == MemGetitem(sw0, cf, Loc2(Reg_Z, "erasable"))
        gL == MemGetitem(sw0, cf, LocSlice(Reg_L, "erasable"))
        gQ == MemGetitem(sw0, cf, LocSlice(Reg_Q, "erasable"))
    IN  IF gZ.err # "none" THEN raise(gZ.err)
        ELSE IF gL.err # "none" THEN raise(gL.err)
        ELSE IF gQ.err # "none" THEN raise(gQ.err)
        ELSE [err |-> "none", sw |-> sw0, cf |-> cf, par |-> par,
              extracode |-> FALSE, parity |-> FALSE, enable |-> TRUE]

(***************************************************************************)
(* _IO_channels                                                            *)
(***************************************************************************)
channel_len == 512           \* 0o1000

\* a plausible slip: range(0o30, 0o33) for range(0o30, 0o34)
InitChannelShort == [i \in 24..26 |-> 16383]

\* _IO_channels.__init__: self.channel = np.zeros((0o1000)), then
\* "for i in range(0o30, 0o34): self.channel[i] = 0o37777"
InitChannel == [i \in 24..27 |-> 16383]

\* Cpu.__init__: self.io = _IO_channels(mem.unswitched[L:L+1],
\* mem.unswitched[Q:Q+1]); channel1 and channel2 are np.squeeze of the two
\* slices, views of the array mem.switched is
\* channel is the array self.channel, by its non-zero cells
InitIo == [shared |-> TRUE, arr |-> Zeros, channel |-> InitChannel]

\* the value io.channel1 (reg = L) or io.channel2 (reg = Q) reads
IoChannel(sw, ch, reg) ==
    IF ch.shared THEN Peek(sw, UnswitchedCell(reg))
    ELSE Peek(ch.arr, UnswitchedCell(reg))

\* the elements of the array sw that the two views of _IO_channels reach
IoCells(sw) ==
    [c \in (DOMAIN sw) \cap {UnswitchedCell(Reg_L), UnswitchedCell(Reg_Q)}
       |-> sw[c]]

\* self.io after cpu_reset, sw being the array mem.switched was before the
\* call and err the exception the call raised.  Every statement that can
\* raise comes before the assignment to self.io; when one does, self.io is
\* the object it was, and its views keep the array they were made of alive
\* while mem.switched is a new array.  Of that array only the two elements
\* the views reach can still be read or written.
CpuResetIo(sw, err, ch) ==
    IF err = "none" THEN InitIo
    ELSE IF ch.shared
    THEN [shared |-> FALSE, arr |-> IoCells(sw), channel |-> ch.channel]
    ELSE ch

(***************************************************************************)
(* Cpu.load_core_rope                                                      *)
(***************************************************************************)
\* a plausible slip: range(35) for range(36)
BankOrderShort == [k \in 1..35 |-> IF k = 1 THEN 2 ELSE IF k = 2 THEN 3
                                   ELSE IF k = 3 THEN 0 ELSE IF k = 4 THEN 1
                                   ELSE k - 1]

\* banks = [i for i in range(36)] ; banks[0..3] = 2, 3, 0, 1
BankOrder == [k \in 1..36 |-> IF k = 1 THEN 2 ELSE IF k = 2 THEN 3
                              ELSE IF k = 3 THEN 0 ELSE IF k = 4 THEN 1
                              ELSE k - 1]

\* a plausible slip: "=" for "|="
OrParityAssigns(par, idx, bit, parity) ==
    IF parity = 0 THEN [j \in (DOMAIN par) \ {idx} |-> par[j]]
    ELSE [j \in (DOMAIN par) \cup {idx} |->
            IF j = idx THEN {bit} ELSE par[j]]

\* parities[idx] |= parity << bit ; a cell is the set of its bits that are 1
OrParity(par, idx, bit, parity) ==
    IF parity = 0 THEN par
    ELSE [j \in (DOMAIN par) \cup {idx} |->
            IF j = idx THEN PeekBits(par, idx) \cup {bit} ELSE par[j]]

\* a plausible slip: the file read low byte first
WordLittleEndian(bytes, i) == bytes[2 * i + 2] * 256 + bytes[2 * i + 1]

\* bytes = f.read(2) ; word = int.from_bytes(bytes, byteorder='big'), for
\* the i-th word of the file (i from 0)
Word(bytes, i) == bytes[2 * i + 1] * 256 + bytes[2 * i + 2]

\* a plausible slip: the shift taken modulo the width of a word
ParityBitMod16(i, addr) == addr % 16

\* the shift of "parity << (addr % 32)" for word i, stored at addr
ParityBit(i, addr) == addr % 32

\* one pass of the body of "for i in range(file_size_word)", for word i.
\*   it   : the number of items taken from banks_iter
\* (a fixed write leaves the erasable array alone, so none is passed on)
\* Result: [err, it, bank, addr, cf, par, flag, stop], the locals after the
\* pass; stop tells that next(banks_iter) raised StopIteration in it.
LoadStep(i, bytes, it, bank, addr, cf, par, flag) ==
    LET full  == addr = fixed_words
        it1   == IF full /\ it < Len(BankOrder) THEN it + 1 ELSE it
        bank1 == IF full /\ it < Len(BankOrder) THEN BankOrder[it + 1] ELSE bank
        addr1 == IF full THEN 0 ELSE addr
        word   == Word(bytes, i)
        parity == word % 2
        s      == MemSetitem(Zeros, cf, Loc3(bank1, addr1, "fixed"), word \div 2)
    IN  IF s.err # "none"
        THEN [err |-> s.err, it |-> it1, bank |-> bank1, addr |-> addr1,
              cf |-> cf, par |-> par, flag |-> flag,
              stop |-> full /\ it = Len(BankOrder)]
        ELSE [err |-> "none", it |-> it1, bank |-> bank1, addr |-> addr1 + 1,
              cf |-> s.cf,
              par |-> OrParity(par, (bank1 * fixed_words + addr1) \div 32,
                               ParityBit(i, addr1), parity),
              flag |-> flag \/ parity = 1,
              stop |-> full /\ it = Len(BankOrder)]

\* "for i in range(file_size_word)", from word i on.
\* Result: [err, cf, par, flag]
RECURSIVE LoadLoop(_, _, _, _, _, _, _, _, _)
LoadLoop(i, n, bytes, it, bank, addr, cf, par, flag) ==
    IF i = n THEN [err |-> "none", cf |-> cf, par |-> par, flag |-> flag]
    ELSE LET r == LoadStep(i, bytes, it, bank, addr, cf, par, flag)
         IN  IF r.err # "none"
             THEN [err |-> r.err, cf |-> r.cf, par |-> r.par, flag |-> r.flag]
             ELSE LoadLoop(i + 1, n, bytes, r.it, r.bank, r.addr, r.cf, r.par,
                           r.flag)

\* a plausible slip: the two size checks in the other order
LoadCheckSizeFirst(file, size) ==
    IF ~file.path_ok THEN [err |-> "TypeError", msg |-> "path"]
    ELSE IF ~file.exists THEN [err |-> "FileNotFoundError", msg |-> "missing"]
    ELSE IF size \div 2 > 36 * fixed_words
    THEN [err |-> "ValueError", msg |-> "too big"]
    ELSE IF size % 2 # 0 THEN [err |-> "ValueError", msg |-> "not even"]
    ELSE [err |-> "none", msg |-> "none"]

\* a plausible slip: ">=" for ">" in the size check
LoadCheckExactRejected(file, size) ==
    IF ~file.path_ok THEN [err |-> "TypeError", msg |-> "path"]
    ELSE IF ~file.exists THEN [err |-> "FileNotFoundError", msg |-> "missing"]
    ELSE IF size % 2 # 0 THEN [err |-> "ValueError", msg |-> "not even"]
    ELSE IF size \div 2 >= 36 * fixed_words
    THEN [err |-> "ValueError", msg |-> "too big"]
    ELSE [err |-> "none", msg |-> "none"]

\* the checks Cpu.load_core_rope(bin_path) makes before it opens the file,
\* the file at bin_path being
\*   [path_ok : bin_path is a non-empty str, exists : os.path.isfile,
\*    bytes : the file's content]
\* and size = os.path.getsize(bin_path); msg tells the two ValueErrors apart
\*   "Incorrect file size (size is not even)."
\*   "File size is too big for core memory."
LoadCheck(file, size) ==
    IF ~file.path_ok THEN [err |-> "TypeError", msg |-> "path"]
    ELSE IF ~file.exists THEN [err |-> "FileNotFoundError", msg |-> "missing"]
    ELSE IF size % 2 # 0 THEN [err |-> "ValueError", msg |-> "not even"]
    ELSE IF size \div 2 > 36 * fixed_words
    THEN [err |-> "ValueError", msg |-> "too big"]
    ELSE [err |-> "none", msg |-> "none"]

\* Cpu.load_core_rope(bin_path)
LoadCoreRope(file, cf, par, flag) ==
    LET c == LoadCheck(file, Len(file.bytes))
    IN  IF c.err # "none"
        THEN [err |-> c.err, cf |-> cf, par |-> par, flag |-> flag]
        ELSE LoadLoop(0, Len(file.bytes) \div 2, file.bytes, 1, BankOrder[1],
                      0, cf, par, flag)

\* _cpu_utils.load_core_rope(bin_path, mem, check_parity_flag, parities):
\* the same statements on the caller's mem and parities; check_parity_flag
\* is a bool passed by value and nothing is returned, so the flag of the
\* caller keeps the value it was called with
UtilsLoadCoreRope(file, cf, par, flag) ==
    LET r == LoadCoreRope(file, cf, par, flag)
    IN  [err |-> r.err, cf |-> r.cf, par |-> r.par, flag |-> flag]

(***************************************************************************)
(* Bounds and inputs                                                       *)
(***************************************************************************)
\* a memory write is explored while at most MaxDirty cells are non-zero
MaxDirty == 2

NoLoc == LocInt(0)

\* bank indices tried: first, inside, last valid erasable + 1, last valid
\* fixed + 1
Banks == {0, 2, 3, switched_banks, common_fixed_banks}
\* erasable addresses tried: around 0, 0o400 and 0o1400, and register Z
EAddrs == {-1, 0, Reg_Z, erasable_words - 1, erasable_words,
           unswitched_len - 1, unswitched_len}
\* fixed addresses tried: around 0, 0o2000, 0o4000, and 0o6000, 0o7777
FAddrs == {-1, 0, fixed_words - 1, fixed_words, fixed_fixed_len - 1,
           fixed_fixed_len, 3 * fixed_words, 4 * fixed_words - 1}
MemLocs ==
    {Loc3(b, a, "erasable") : b \in Banks, a \in EAddrs}
    \cup {Loc2(a, "erasable") : a \in EAddrs}
    \cup {Loc3(b, a, "fixed") : b \in Banks, a \in FAddrs}
    \cup {Loc2(a, "fixed") : a \in FAddrs}
    \cup {Loc2(0, "io"), Loc3(0, 0, "io")}
\* the locations the Cpu-level specification reads and writes
CpuLocs == {Loc2(Reg_Z, "erasable"), Loc3(0, Reg_Z, "erasable"),
            Loc2(Reg_ARUPT, "erasable"),
            Loc3(2, 0, "fixed"), Loc2(BOOT, "fixed")}
\* 15-bit words written
Words == {0, 1, 32767}
MemWords == {0, 1}
Vectors == {BOOT, T6RUPT}

File(bytes) == [path_ok |-> TRUE, exists |-> TRUE, bytes |-> bytes]
Files == {[path_ok |-> FALSE, exists |-> FALSE, bytes |-> <<>>],
          [path_ok |-> TRUE, exists |-> FALSE, bytes |-> <<>>],
          File(<<>>),
          File(<<0, 3, 0, 5>>),        \* words 1, 2, both with parity
          File(<<0, 2>>),              \* word 1, no parity
          File(<<0, 3, 0>>),           \* odd length
          File(<<255, 254, 0, 1>>)}    \* words 0o77777 (no parity), 0 (parity)

\* a behaviour makes at most MaxLoads step-by-step loads
MaxLoads == 2

\* a full image, 36 banks of words, all 0 but for the words at the ends of
\* banks and at bits 1 and 31 of a bitmap cell
FullWords == 36 * fixed_words
FullWord(w) ==
    CASE w = 0 -> 3                            \* bank 2, 0     : 1, parity
      [] w = fixed_words - 1 -> 65534          \* bank 2, 0o1777: 0o77777
      [] w = fixed_words -> 5                  \* bank 3, 0     : 2, parity
      [] w = 2 * fixed_words + 33 -> 3         \* bank 0, 33    : 1, parity
      [] w = 3 * fixed_words -> 2              \* bank 1, 0     : 1
      [] w = 5 * fixed_words - 1 -> 1          \* bank 4, 0o1777: 0, parity
      [] w = FullWords - 1 -> 65535            \* bank 35, 0o1777: 0o77777, p.
      [] OTHER -> 0
ImageBytes(len) ==
    [k \in 1..len |-> IF k % 2 = 1 THEN FullWord((k - 1) \div 2) \div 256
                                  ELSE FullWord((k - 1) \div 2) % 256]

\* the files loaded step by step, by number
LoadFileIds == 1..9
LoadFiles(f) ==
    CASE f = 1 -> [path_ok |-> FALSE, exists |-> FALSE, bytes |-> <<>>]
      [] f = 2 -> [path_ok |-> TRUE, exists |-> FALSE, bytes |-> <<>>]
      [] f = 3 -> File(<<>>)
      [] f = 4 -> File(<<0, 3, 0, 5>>)           \* words 1, 2, both with parity
      [] f = 5 -> File(<<0, 2, 0, 4, 255, 254>>) \* words 1, 2, 0o77777, no parity
      [] f = 6 -> File(<<0, 3, 0>>)              \* odd length
      [] f = 7 -> File(ImageBytes(2 * FullWords))        \* 36 banks
      [] f = 8 -> File(ImageBytes(2 * FullWords + 2))    \* one word too many
      [] f = 9 -> File(ImageBytes(2 * FullWords + 3))    \* too large and odd

Dirty(sw, cf) == Cardinality(DOMAIN sw) + Cardinality(DOMAIN cf)

(***************************************************************************)
(* State machine of the Cpu                                                *)
(***************************************************************************)
Result(op, loc, value, err, ret, val, arr, cell) ==
    [op |-> op, loc |-> loc, value |-> value, err |-> err, ret |-> ret,
     val |-> val, arr |-> arr, cell |-> cell]

\* no call in flight
Idle == Result("idle", NoLoc, 0, "none", "none", 0, "none", NoCell)

\* no load in progress, none made
NoLoad == [pc |-> "idle", f |-> 0, size |-> 0, i |-> 0, n |-> 0, it |-> 0,
           bank |-> 0, addr |-> 0, stop |-> FALSE, count |-> 0,
           cf0 |-> Zeros, par0 |-> Zeros, flag0 |-> FALSE]

\* a plausible slip: the program counter left at 0
InitSwitchedZero == Zeros

\* _Memory.__init__ : np.zeros, then unswitched[reg.Z] = 0o4000
InitSwitched == Poke(Zeros, UnswitchedCell(Reg_Z), BOOT)

InitCpu ==
    /\ switched = InitSwitched
    /\ common_fixed = Zeros
    /\ parities = Zeros
    /\ extracode_flag = FALSE
    /\ check_parity_flag = FALSE
    /\ irq_enable = TRUE
    /\ reg_B = 0
    /\ last = Idle
    /\ io = InitIo
    /\ ld = NoLoad

\* value = mem[loc]
MemRead(loc) ==
    /\ last = Idle
    /\ last' = LET g == MemGetitem(switched, common_fixed, loc)
               IN  Result("read", loc, 0, g.err, "none", g.val, g.arr, g.cell)
    /\ UNCHANGED <<switched, common_fixed, parities, extracode_flag,
                   check_parity_flag, irq_enable, reg_B>>
    /\ UNCHANGED <<io, ld, timerVars>>

\* mem[loc] = value
MemWrite(loc, value) ==
    /\ last = Idle
    /\ \E s \in {MemSetitem(switched, common_fixed, loc, value)} :
        /\ Dirty(s.sw, s.cf) <= MaxDirty
        /\ switched' = s.sw
        /\ common_fixed' = s.cf
        /\ last' = Result("write", loc, value, s.err, "none", 0, s.arr, s.cell)
    /\ UNCHANGED <<parities, extracode_flag, check_parity_flag,
                   irq_enable, reg_B>>
    /\ UNCHANGED <<io, ld, timerVars>>

\* irq.process(intrpt)
Process(intrpt) ==
    /\ last = Idle
    /\ \E r \in {ProcessCall(switched, common_fixed, reg_B, irq_enable,
                             intrpt)} :
        /\ switched' = r.sw
        /\ common_fixed' = r.cf
        /\ reg_B' = r.B
        /\ irq_enable' = r.enable
        /\ last' = Result("process", NoLoc, intrpt, r.err, r.ret, 0,
                          "none", NoCell)
    /\ UNCHANGED <<parities, extracode_flag, check_parity_flag>>
    /\ UNCHANGED <<io, ld, timerVars>>

\* the interpreter inhibits or releases interrupts: irq.enable = b
SetEnable(b) ==
    /\ last = Idle
    /\ irq_enable' = b
    /\ last' = Result("set_enable", NoLoc, 0, "none", "none", 0, "none", NoCell)
    /\ UNCHANGED <<switched, common_fixed, parities, extracode_flag,
                   check_parity_flag, reg_B>>
    /\ UNCHANGED <<io, ld, timerVars>>

\* the interpreter enters or leaves extracode mode: cpu.extracode_flag = b
SetExtracode(b) ==
    /\ last = Idle
    /\ extracode_flag' = b
    /\ last' = Result("set_extracode", NoLoc, 0, "none", "none", 0,
                      "none", NoCell)
    /\ UNCHANGED <<switched, common_fixed, parities, check_parity_flag,
                   irq_enable, reg_B>>
    /\ UNCHANGED <<io, ld, timerVars>>

\* cpu.load_core_rope(path of file)
Load(file) ==
    /\ last = Idle
    /\ \E r \in {LoadCoreRope(file, common_fixed, parities,
                              check_parity_flag)} :
        /\ common_fixed' = r.cf
        /\ parities' = r.par
        /\ check_parity_flag' = r.flag
        /\ last' = Result("load", NoLoc, Len(file.bytes), r.err, "none", 0,
                          "none", NoCell)
    /\ UNCHANGED <<switched, extracode_flag, irq_enable, reg_B>>
    /\ UNCHANGED <<io, ld, timerVars>>

\* _cpu_utils.load_core_rope(path of file, cpu.mem, cpu.check_parity_flag,
\*                           cpu.parities)
UtilsLoad(file) ==
    /\ last = Idle
    /\ \E r \in {UtilsLoadCoreRope(file, common_fixed, parities,
                                   check_parity_flag)} :
        /\ common_fixed' = r.cf
        /\ parities' = r.par
        /\ check_parity_flag' = r.flag
        /\ last' = Result("utils_load", NoLoc, Len(file.bytes), r.err, "none",
                          0, "none", NoCell)
    /\ UNCHANGED <<switched, extracode_flag, irq_enable, reg_B>>
    /\ UNCHANGED <<io, ld, timerVars>>

\* cpu.load_core_rope(path of LoadFiles(f)) begins: the checks, then
\* open(), addr = 0, banks_iter = iter(banks), bank = next(banks_iter)
LoadBegin(f) ==
    /\ last = Idle
    /\ ld.pc = "idle"
    /\ ld.count < MaxLoads
    /\ \E size \in {Len(LoadFiles(f).bytes)} :
       \E c \in {LoadCheck(LoadFiles(f), size)} :
        /\ ld' = [pc |-> IF c.err = "none" THEN "loop" ELSE "idle",
                  f |-> f, size |-> size, i |-> 0, n |-> size \div 2,
                  it |-> 1, bank |-> BankOrder[1], addr |-> 0,
                  stop |-> FALSE, count |-> ld.count + 1,
                  cf0 |-> common_fixed, par0 |-> parities,
                  flag0 |-> check_parity_flag]
        /\ last' = IF c.err = "none" THEN last
                   ELSE Result("load", NoLoc, size, c.err, c.msg, 0, "none",
                               NoCell)
    /\ UNCHANGED <<switched, common_fixed, parities, extracode_flag,
                   check_parity_flag, irq_enable, reg_B>>
    /\ UNCHANGED <<io, timerVars>>

\* one test of "for i in range(file_size_word)" and, when a word is left,
\* one pass of the body; the call returns when none is left
LoadWord ==
    /\ ld.pc = "loop"
    /\ IF ld.i = ld.n
       THEN /\ ld' = [ld EXCEPT !.pc = "idle"]
            /\ last' = Result("load", NoLoc, ld.size, "none", "none", 0,
                              "none", NoCell)
            /\ UNCHANGED <<common_fixed, parities, check_parity_flag>>
       ELSE \E r \in {LoadStep(ld.i, LoadFiles(ld.f).bytes, ld.it, ld.bank,
                                ld.addr, common_fixed, parities,
                                check_parity_flag)} :
            /\ common_fixed' = r.cf
            /\ parities' = r.par
            /\ check_parity_flag' = r.flag
            /\ ld' = [ld EXCEPT !.pc = IF r.err = "none" THEN "loop"
                                       ELSE "idle",
                                !.i = ld.i + 1, !.it = r.it, !.bank = r.bank,
                                !.addr = r.addr, !.stop = ld.stop \/ r.stop]
            /\ last' = IF r.err = "none" THEN last
                       ELSE Result("load", NoLoc, ld.size, r.err, "none", 0,
                                   "none", NoCell)
    /\ UNCHANGED <<switched, extracode_flag, irq_enable, reg_B>>
    /\ UNCHANGED <<io, timerVars>>

\* the interpreter writes a channel in place: cpu.io.channel1[...] = value
\* (reg = L) or cpu.io.channel2[...] = value (reg = Q)
IoWrite(reg, value) ==
    /\ last = Idle
    /\ IF io.shared
       THEN /\ Dirty(Poke(switched, UnswitchedCell(reg), value), common_fixed)
                 <= MaxDirty
            /\ switched' = Poke(switched, UnswitchedCell(reg), value)
            /\ UNCHANGED io
       ELSE /\ io' = [io EXCEPT !.arr = Poke(io.arr, UnswitchedCell(reg), value)]
            /\ UNCHANGED switched
    /\ last' = Result("io_write", Loc2(reg, "io"), value, "none", "none", 0,
                      "none", NoCell)
    /\ UNCHANGED <<common_fixed, parities, extracode_flag, check_parity_flag,
                   irq_enable, reg_B>>
    /\ UNCHANGED <<ld, timerVars>>

\* the cell of the array self.channel that the index i names: numpy counts
\* a negative index from the end of the array
ChannelIndex(i) == IF i < 0 THEN channel_len + i ELSE i

\* the interpreter writes a cell of the channel array:
\* cpu.io.channel[i] = value, an IndexError when i is past either end of
\* the array (i >= 0o1000 or i < -0o1000)
IoChannelSet(i, value) ==
    /\ last = Idle
    /\ IF i \in (-channel_len)..(channel_len - 1)
       THEN /\ io' = [io EXCEPT
                        !.channel = Poke(io.channel, ChannelIndex(i), value)]
            /\ last' = Result("io_set", Loc2(i, "io"), value, "none", "none",
                              0, "none", NoCell)
       ELSE /\ UNCHANGED io
            /\ last' = Result("io_set", Loc2(i, "io"), value, "IndexError",
                              "none", 0, "none", NoCell)
    /\ UNCHANGED <<switched, common_fixed, parities, extracode_flag,
                   check_parity_flag, irq_enable, reg_B>>
    /\ UNCHANGED <<ld, timerVars>>

\* cpu.cpu_reset()
CpuReset ==
    /\ last = Idle
    /\ \E r \in {CpuResetCall(switched, common_fixed, parities,
                              extracode_flag, check_parity_flag,
                              irq_enable)} :
        /\ switched' = r.sw
        /\ common_fixed' = r.cf
        /\ parities' = r.par
        /\ extracode_flag' = r.extracode
        /\ check_parity_flag' = r.parity
        /\ irq_enable' = r.enable
        /\ io' = CpuResetIo(switched, r.err, io)
        /\ last' = Result("reset", NoLoc, 0, r.err, "none", 0, "none", NoCell)
    /\ UNCHANGED reg_B
    /\ UNCHANGED <<ld, timerVars>>

\* the caller has taken the outcome of its call; the next call can be made
Return ==
    /\ last # Idle
    /\ last' = Idle
    /\ UNCHANGED <<switched, common_fixed, parities, extracode_flag,
                   check_parity_flag, irq_enable, reg_B>>
    /\ UNCHANGED <<io, ld, timerVars>>

(***************************************************************************)
(* _Timer                                                                  *)
(***************************************************************************)
MCT_ns == 11720

\* the clock advances in steps of a quarter machine cycle, up to MaxQuanta
\* steps; added_cycle is set to at most MaxAdded; wait_cycle is called with
\* at most MaxWait cycles
MaxQuanta == 16
MaxAdded == 2
MaxWait == 2
Quantum == MCT_ns \div 4
MaxNow == MaxQuanta * Quantum

TResult(op, t, t2, cs, ew, ac, nb, ret) ==
    [op |-> op, t |-> t, t2 |-> t2, cs |-> cs, ew |-> ew, ac |-> ac,
     nb |-> nb, ret |-> ret]

\* _Timer.__init__, the clock reading 0 at construction
InitTimer ==
    /\ now = 0
    /\ elapsed_time_ns = 0
    /\ cycle_start_time_ns = 0
    /\ added_cycle = 0
    /\ elapsed_wait = 0
    /\ total_cycle_time = 0
    /\ tpc = "idle"
    /\ start_wait = 0
    /\ wait_nb = 0
    /\ tlast = TResult("init", 0, 0, 0, 0, 0, 0, FALSE)
    /\ true_at = -1

\* a plausible slip: the wait added to the elapsed time instead of removed
ElapsedAddsWait(t, ew, cs) == (t + ew) - cs

\* a plausible slip: the wait left in the elapsed time
ElapsedIgnoresWait(t, ew, cs) == t - cs

\* the elapsed time do_cycle compares: (time_ns() - elapsed_wait) - start
Elapsed(t, ew, cs) == (t - ew) - cs

\* a plausible slip: the added cycles left out of the threshold
ThresholdNoAdded(ac) == MCT_ns

\* the threshold do_cycle compares it with
Threshold(ac) == MCT_ns + (MCT_ns * ac)

\* a plausible slip: the operands of the subtraction swapped
WaitedBackwards(t, start) == start - t

\* the time wait_cycle has waited: time_ns() - start_wait
Waited(t, start) == t - start

\* time passes
Tick ==
    /\ UNCHANGED cpuVars
    /\ now + Quantum <= MaxNow
    /\ now' = now + Quantum
    /\ UNCHANGED <<elapsed_time_ns, cycle_start_time_ns, added_cycle,
                   elapsed_wait, total_cycle_time, tpc, start_wait, wait_nb,
                   tlast, true_at>>

\* a plausible slip: cycle_start_time_ns = time_ns() before the "if", so
\* that a False result restarts the cycle too
DoCycleRestartsOnFalse(d) ==
    /\ UNCHANGED cpuVars
    /\ tpc = "idle"
    /\ now + d <= MaxNow
    /\ LET e == Elapsed(now, elapsed_wait, cycle_start_time_ns)
       IN  /\ elapsed_time_ns' = e
           /\ now' = now + d
           /\ cycle_start_time_ns' = now + d
           /\ IF e >= Threshold(added_cycle)
              THEN /\ added_cycle' = IF added_cycle > 0 THEN 0 ELSE added_cycle
                   /\ total_cycle_time' = e + elapsed_wait
                   /\ elapsed_wait' = IF elapsed_wait > 0 THEN 0
                                      ELSE elapsed_wait
                   /\ tlast' = TResult("do_cycle", now, now + d,
                                       cycle_start_time_ns, elapsed_wait,
                                       added_cycle, 0, TRUE)
                   /\ true_at' = now
              ELSE /\ tlast' = TResult("do_cycle", now, now + d,
                                       cycle_start_time_ns, elapsed_wait,
                                       added_cycle, 0, FALSE)
                   /\ UNCHANGED <<added_cycle, total_cycle_time,
                                  elapsed_wait, true_at>>
    /\ UNCHANGED <<tpc, start_wait, wait_nb>>

\* _Timer.do_cycle(); d is the time that passes between its two clock reads
DoCycle(d) ==
    /\ UNCHANGED cpuVars
    /\ tpc = "idle"
    /\ now + d <= MaxNow
    /\ LET e == Elapsed(now, elapsed_wait, cycle_start_time_ns)
       IN  /\ elapsed_time_ns' = e
           /\ IF e >= Threshold(added_cycle)
              THEN /\ now' = now + d
                   /\ cycle_start_time_ns' = now + d
                   /\ added_cycle' = IF added_cycle > 0 THEN 0 ELSE added_cycle
                   /\ total_cycle_time' = e + elapsed_wait
                   /\ elapsed_wait' = IF elapsed_wait > 0 THEN 0
                                      ELSE elapsed_wait
                   /\ tlast' = TResult("do_cycle", now, now + d,
                                       cycle_start_time_ns, elapsed_wait,
                                       added_cycle, 0, TRUE)
                   /\ true_at' = now
              ELSE /\ tlast' = TResult("do_cycle", now, now,
                                       cycle_start_time_ns, elapsed_wait,
                                       added_cycle, 0, FALSE)
                   /\ UNCHANGED <<now, cycle_start_time_ns, added_cycle,
                                  total_cycle_time, elapsed_wait, true_at>>
    /\ UNCHANGED <<tpc, start_wait, wait_nb>>

\* _Timer.wait_cycle(nb_cycle): start_wait = time_ns()
WaitCycle(nb) ==
    /\ UNCHANGED cpuVars
    /\ tpc = "idle"
    /\ tpc' = "wait"
    /\ start_wait' = now
    /\ wait_nb' = nb
    /\ tlast' = TResult("wait_cycle", now, now, cycle_start_time_ns,
                        elapsed_wait, added_cycle, nb, FALSE)
    /\ UNCHANGED <<now, elapsed_time_ns, cycle_start_time_ns, added_cycle,
                   elapsed_wait, total_cycle_time, true_at>>

\* one test of "while self.elapsed_wait < self.MCT_ns * nb_cycle" and, when
\* it holds, the body elapsed_wait = time_ns() - start_wait
WaitLoop ==
    /\ UNCHANGED cpuVars
    /\ tpc = "wait"
    /\ IF elapsed_wait < MCT_ns * wait_nb
       THEN /\ elapsed_wait' = Waited(now, start_wait)
            /\ UNCHANGED <<tpc, tlast>>
       ELSE /\ tpc' = "idle"
            /\ tlast' = TResult("wait_done", tlast.t, now, tlast.cs, tlast.ew,
                                tlast.ac, tlast.nb, TRUE)
            /\ UNCHANGED elapsed_wait
    /\ UNCHANGED <<now, elapsed_time_ns, cycle_start_time_ns, added_cycle,
                   total_cycle_time, start_wait, wait_nb, true_at>>

\* the caller sets timer.added_cycle = n after an instruction
SetAddedCycle(n) ==
    /\ UNCHANGED cpuVars
    /\ tpc = "idle"
    /\ added_cycle' = n
    /\ tlast' = TResult("set_added", now, now, cycle_start_time_ns,
                        elapsed_wait, added_cycle, 0, FALSE)
    /\ UNCHANGED <<now, elapsed_time_ns, cycle_start_time_ns, elapsed_wait,
                   total_cycle_time, tpc, start_wait, wait_nb, true_at>>

(***************************************************************************)
(* Cpu.run                                                                 *)
(***************************************************************************)
\* The loop of Cpu.run:
\*   while True:
\*       if self.timer.do_cycle():
\*           self.timer.wait_cycle(1)
\*           self.timer.added_cycle = 1
\*           self._execute_cycle()
\* tlast tells where the loop is.  The instruction executed may ask for
\* other numbers of cycles, so wait_cycle is given 1 .. MaxWait and
\* added_cycle 0 .. MaxAdded.  The loop runs for ever, so the clock is read
\* from an origin that moves: _Timer uses differences of clock readings
\* only, and a do_cycle that returns True takes its second reading as the
\* new origin.

\* the step of the clock while the loop runs: half a machine cycle.  The
\* clock runs at most one step past the time the test the loop is at (of
\* wait_cycle, of do_cycle) is satisfied before the loop makes that test.
RunQuantum == 2 * Quantum

\* time passes while the loop runs
RunTick ==
    /\ UNCHANGED cpuVars
    /\ IF tpc = "wait"
       THEN now - start_wait
              < MCT_ns * wait_nb + RunQuantum
       ELSE Elapsed(now, elapsed_wait, cycle_start_time_ns)
              < Threshold(added_cycle) + RunQuantum
    /\ now' = now + RunQuantum
    /\ UNCHANGED <<elapsed_time_ns, cycle_start_time_ns, added_cycle,
                   elapsed_wait, total_cycle_time, tpc, start_wait, wait_nb,
                   tlast, true_at>>

\* "if self.timer.do_cycle()": _Timer.do_cycle() as in DoCycle(d), the clock
\* read from now + d on when it returns True
RunPoll(d) ==
    /\ UNCHANGED cpuVars
    /\ tpc = "idle"
    /\ \/ tlast.op \in {"init", "set_added"}
       \/ tlast.op = "do_cycle" /\ ~tlast.ret
    /\ LET e == Elapsed(now, elapsed_wait, cycle_start_time_ns)
           origin == now + d
       IN  /\ elapsed_time_ns' = e
           /\ IF e >= Threshold(added_cycle)
              THEN /\ now' = (now + d) - origin
                   /\ cycle_start_time_ns' = (now + d) - origin
                   /\ added_cycle' = IF added_cycle > 0 THEN 0 ELSE added_cycle
                   /\ total_cycle_time' = e + elapsed_wait
                   /\ elapsed_wait' = IF elapsed_wait > 0 THEN 0
                                      ELSE elapsed_wait
                   /\ tlast' = TResult("do_cycle", now - origin,
                                       (now + d) - origin,
                                       cycle_start_time_ns - origin,
                                       elapsed_wait, added_cycle, 0, TRUE)
                   /\ true_at' = now - origin
                   /\ start_wait' = start_wait - origin
              ELSE /\ tlast' = TResult("do_cycle", now, now,
                                       cycle_start_time_ns, elapsed_wait,
                                       added_cycle, 0, FALSE)
                   /\ UNCHANGED <<now, cycle_start_time_ns, added_cycle,
                                  total_cycle_time, elapsed_wait, true_at,
                                  start_wait>>
    /\ UNCHANGED <<tpc, wait_nb>>

\* a plausible slip: the body of the "if" run whatever do_cycle returned
RunWaitUngated(nb) ==
    /\ tlast.op = "do_cycle"
    /\ WaitCycle(nb)

\* "self.timer.wait_cycle(1)", after do_cycle has returned True
RunWait(nb) ==
    /\ tlast.op = "do_cycle"
    /\ tlast.ret
    /\ WaitCycle(nb)

\* "self.timer.added_cycle = 1 ; self._execute_cycle()", after wait_cycle
\* has returned; _execute_cycle is "pass"
RunExecute(n) ==
    /\ tlast.op = "wait_done"
    /\ SetAddedCycle(n)

(***************************************************************************)
(* Specifications                                                          *)
(***************************************************************************)
Init == InitCpu /\ InitTimer

\* the Cpu: interrupts, loader, reset, and memory accesses at CpuLocs
Next ==
    \/ \E loc \in CpuLocs : MemRead(loc)
    \/ \E loc \in CpuLocs, v \in Words : MemWrite(loc, v)
    \/ \E v \in Vectors : Process(v)
    \/ \E b \in BOOLEAN : SetEnable(b)
    \/ \E b \in BOOLEAN : SetExtracode(b)
    \/ \E f \in Files : Load(f)
    \/ \E f \in Files : UtilsLoad(f)
    \/ CpuReset
    \/ Return

Spec == Init /\ [][Next]_vars

\* the memory: every access at MemLocs, and reset
NextMem ==
    \/ \E loc \in MemLocs : MemRead(loc)
    \/ \E loc \in MemLocs, v \in MemWords : MemWrite(loc, v)
    \/ CpuReset
    \/ Return

SpecMem == Init /\ [][NextMem]_vars

\* the I/O channels 1 and 2 and the registers L and Q
IoLocs == {Loc2(Reg_L, "erasable"), Loc2(Reg_Q, "erasable"),
           Loc3(0, Reg_L, "erasable"), Loc3(0, Reg_Q, "erasable")}
\* channel indices written: 0o30, 0o34, the last cell and one past it, and
\* from the end -1, 0o30 - 0o1000, -0o1000 and one before it
IoCellsTried == {24, 28, channel_len - 1, channel_len,
                 -1, 24 - channel_len, -channel_len, -channel_len - 1}
NextIo ==
    \/ \E loc \in IoLocs, v \in Words : MemWrite(loc, v)
    \/ \E reg \in {Reg_L, Reg_Q}, v \in Words : IoWrite(reg, v)
    \/ \E i \in IoCellsTried, v \in {0, 16383} : IoChannelSet(i, v)
    \/ CpuReset
    \/ Return

SpecIo == Init /\ [][NextIo]_vars

\* the registers CYR, CYL and EDOP, through both erasable paths
RegLocs == {Loc2(Reg_CYR, "erasable"), Loc2(Reg_CYL, "erasable"),
            Loc2(Reg_EDOP, "erasable"), Loc3(0, Reg_CYR, "erasable"),
            Loc3(0, Reg_CYL, "erasable"), Loc3(0, Reg_EDOP, "erasable")}
\* words with bit 0, bit 7, bit 14 or every bit set
RegWords == {0, 1, 128, 16384, 32767}
NextReg ==
    \/ \E loc \in RegLocs : MemRead(loc)
    \/ \E loc \in RegLocs, v \in RegWords : MemWrite(loc, v)
    \/ Return

SpecReg == Init /\ [][NextReg]_vars

\* the last banks of common-fixed memory: the last one loaded, the four
\* that are not, and the first bank index out of range; with loads and reset
BankLocs == {Loc3(35, fixed_words - 1, "fixed"), Loc3(36, 0, "fixed"),
             Loc3(39, fixed_words - 1, "fixed"),
             Loc3(common_fixed_banks, 0, "fixed")}
NextBanks ==
    \/ \E loc \in BankLocs : MemRead(loc)
    \/ \E loc \in BankLocs, v \in MemWords : MemWrite(loc, v)
    \/ \E f \in Files : Load(f)
    \/ CpuReset
    \/ Return

SpecBanks == Init /\ [][NextBanks]_vars

\* the loader, word by word
NextLoad ==
    \/ \E f \in LoadFileIds : LoadBegin(f)
    \/ LoadWord
    \/ Return

SpecLoad == Init /\ [][NextLoad]_vars

\* the timer and its caller
NextTimer ==
    \/ Tick
    \/ \E d \in {0, Quantum} : DoCycle(d)
    \/ \E nb \in 1..MaxWait : WaitCycle(nb)
    \/ WaitLoop
    \/ \E n \in 0..MaxAdded : SetAddedCycle(n)

SpecTimer == Init /\ [][NextTimer]_vars

\* the loop of Cpu.run under a clock that keeps advancing: the loop takes
\* its next step, and time passes, whenever they can
NextRun ==
    \/ RunTick
    \/ \E d \in {0, RunQuantum} : RunPoll(d)
    \/ \E nb \in 1..MaxWait : RunWait(nb)
    \/ WaitLoop
    \/ \E n \in 0..MaxAdded : RunExecute(n)

SpecRun ==
    /\ Init
    /\ [][NextRun]_vars
    /\ WF_vars(RunTick)
    /\ WF_vars(\E d \in {0, RunQuantum} : RunPoll(d))
    /\ WF_vars(\E nb \in 1..MaxWait : RunWait(nb))
    /\ WF_vars(WaitLoop)
    /\ WF_vars(\E n \in 0..MaxAdded : RunExecute(n))

(***************************************************************************)
(* Properties of the memory map                                            *)
(***************************************************************************)
Get(loc) == MemGetitem(switched, common_fixed, loc)

\* the unswitched addresses that are tried, or whose cell is non-zero
AliasAddrs ==
    (EAddrs \cap (0..(unswitched_len - 1)))
    \cup {c[1] * erasable_words + c[2] : c \in {d \in DOMAIN switched : d[1] < 3}}

LastIsWrite(type) ==
    /\ last.op = "write"
    /\ last.err = "none"
    /\ last.loc.type = type

\* C1: erasable aliasing.  In every state each unswitched address a reads,
\* without a bank, the value that bank a div 0o400 at offset a mod 0o400
\* reads; the value just written through bank b < 3 at offset o is read at
\* the unswitched address b * 0o400 + o, and the value just written at the
\* unswitched address a is read through bank a div 0o400.
C1_ErasableAliasing ==
    /\ \A a \in AliasAddrs :
         LET u == Get(Loc2(a, "erasable"))
             b == Get(Loc3(a \div erasable_words, a % erasable_words,
                           "erasable"))
         IN  u.err = "none" /\ b.err = "none" /\ u.val = b.val
    /\ (LastIsWrite("erasable") /\ last.loc.len = 3
          /\ last.loc.bank \in 0..2
          /\ last.loc.addr \in 0..(erasable_words - 1))
       => LET u == Get(Loc2(last.loc.bank * erasable_words + last.loc.addr,
                            "erasable"))
          IN  u.err = "none" /\ u.val = last.value
    /\ (LastIsWrite("erasable") /\ last.loc.len = 2)
       => LET b == Get(Loc3(last.loc.addr \div erasable_words,
                            last.loc.addr % erasable_words, "erasable"))
          IN  b.err = "none" /\ b.val = last.value

\* a word written through bank 2 at offset 0o377 is read back at the
\* unswitched address 0o1377
C1_Witness ==
    /\ LastIsWrite("erasable")
    /\ last.loc.len = 3 /\ last.loc.bank = 2
    /\ last.loc.addr = erasable_words - 1
    /\ last.value = 1
    /\ Get(Loc2(unswitched_len - 1, "erasable")).val = 1

\* C2: fixed aliasing.  A word just written to common-fixed bank 2 or 3 is
\* stored in a cell that some bank-less fixed address (0 .. 0o7777) reads.
C2_FixedAliasing ==
    (LastIsWrite("fixed") /\ last.loc.len = 3 /\ last.loc.bank \in {2, 3}
       /\ last.loc.addr \in 0..(fixed_words - 1) /\ last.value # 0)
    => \E a \in 0..(4 * fixed_words - 1) :
         LET d == Get(Loc2(a, "fixed"))
         IN  d.err = "none" /\ d.cell = last.cell /\ d.val = last.value

\* C5: banked erasable range check.  An erasable access with a bank index
\* succeeds only for bank in [0, 8) and address in [0, 0o400), and then on
\* the switched cell (bank, address); otherwise it raises.
C5_BankedErasableRange ==
    (last.op \in {"read", "write"} /\ last.loc.tuple /\ last.loc.len = 3
       /\ last.loc.type = "erasable")
    => IF last.loc.bank \in 0..(switched_banks - 1)
          /\ last.loc.addr \in 0..(erasable_words - 1)
       THEN last.err = "none" /\ last.arr = "switched"
            /\ last.cell = <<last.loc.bank, last.loc.addr>>
       ELSE last.err # "none"

\* C6: banked fixed range check.  A fixed access with a bank index succeeds
\* only for bank in [0, 40) and address in [0, 0o2000), and then on the
\* common-fixed cell (bank, address); otherwise it raises.
C6_BankedFixedRange ==
    (last.op \in {"read", "write"} /\ last.loc.tuple /\ last.loc.len = 3
       /\ last.loc.type = "fixed")
    => IF last.loc.bank \in 0..(common_fixed_banks - 1)
          /\ last.loc.addr \in 0..(fixed_words - 1)
       THEN last.err = "none" /\ last.arr = "common_fixed"
            /\ last.cell = <<last.loc.bank, last.loc.addr>>
       ELSE last.err # "none"

\* C8: reset zeroes erasable memory.  Right after a reset every unswitched
\* address and every switched (bank, offset) reads 0, and a word then
\* written through either path is read through the other.
C8_ResetZeroesErasable ==
    last.op = "reset"
    => /\ \A a \in 0..(unswitched_len - 1) :
            LET u == Get(Loc2(a, "erasable"))
            IN  u.err = "none" /\ u.val = 0
       /\ \A b \in 0..(switched_banks - 1), o \in 0..(erasable_words - 1) :
            LET r == Get(Loc3(b, o, "erasable"))
            IN  r.err = "none" /\ r.val = 0
       /\ \A a \in AliasAddrs, v \in MemWords :
            LET viaU == MemSetitem(switched, common_fixed,
                                   Loc2(a, "erasable"), v)
                viaB == MemSetitem(switched, common_fixed,
                                   Loc3(a \div erasable_words,
                                        a % erasable_words, "erasable"), v)
            IN  /\ MemGetitem(viaU.sw, viaU.cf,
                              Loc3(a \div erasable_words, a % erasable_words,
                                   "erasable")).val = v
                /\ MemGetitem(viaB.sw, viaB.cf, Loc2(a, "erasable")).val = v

\* a reset has run: erasable memory is all zero (register Z included, which
\* held 0o4000) while fixed memory still holds a word
C8_Witness ==
    /\ last.op = "reset"
    /\ switched = Zeros
    /\ common_fixed # Zeros

(***************************************************************************)
(* Properties of the interrupt controller and of reset                     *)
(***************************************************************************)
\* C3: interrupt dispatch.  A request(V) made while the controller is
\* enabled, with Z = P and W the word addressed by P (an unswitched erasable
\* word for P < 0o1400, a fixed-fixed word for P in 0o4000 .. 0o7777),
\* returns true and leaves ZRUPT = P, BRUPT = W, B = V and the controller
\* disabled.
C3_InterruptDispatch ==
    [][(last'.op = "process" /\ irq_enable)
       => LET P == Peek(switched, UnswitchedCell(Reg_Z))
              W == IF P \in 0..(unswitched_len - 1)
                   THEN Peek(switched, UnswitchedCell(P))
                   ELSE IF P \in (2 * fixed_words)..(4 * fixed_words - 1)
                   THEN Peek(common_fixed,
                             FixedFixedCell(P - (2 * fixed_words)))
                   ELSE 0
          IN  /\ last'.err = "none"
              /\ last'.ret = "True"
              /\ Peek(switched', UnswitchedCell(Reg_ZRUPT)) = P
              /\ Peek(switched', UnswitchedCell(Reg_BRUPT)) = W
              /\ reg_B' = last'.value
              /\ ~irq_enable']_vars

\* C4: interrupt denial.  A request made while the controller is disabled
\* returns false and changes neither the enable flag, nor B, nor any memory
\* word, bitmap cell or flag.
C4_InterruptDenial ==
    [][(last'.op = "process" /\ ~irq_enable)
       => /\ last'.err = "none"
          /\ last'.ret = "False"
          /\ UNCHANGED <<switched, common_fixed, parities, extracode_flag,
                         check_parity_flag, irq_enable, reg_B>>]_vars

\* a request has been denied
C4_Witness ==
    /\ last.op = "process"
    /\ last.ret = "False"
    /\ last.value = T6RUPT
    /\ ~irq_enable

\* C7: reset flags.  A reset completes and leaves the extracode flag and the
\* parity-check flag false and the controller enabled.
C7_ResetFlags ==
    last.op = "reset"
    => /\ last.err = "none"
       /\ ~extracode_flag
       /\ ~check_parity_flag
       /\ irq_enable

\* C9: reset preserves the program.  A reset changes no common-fixed cell and
\* no bit of the parity bitmap.
C9_ResetPreservesProgram ==
    [][last'.op = "reset"
       => (common_fixed' = common_fixed /\ parities' = parities)]_vars

\* a reset has run on a machine with a loaded image and parity bits
C9_Witness ==
    /\ last.op = "reset"
    /\ common_fixed # Zeros
    /\ parities # Zeros

(***************************************************************************)
(* Properties of the timer                                                 *)
(***************************************************************************)
\* tlast of a do_cycle call: t the clock it read first, cs, ew, ac the
\* values of cycle_start_time_ns, elapsed_wait, added_cycle it found, t2 the
\* clock it read when it reset the cycle start, ret what it returned.

\* C10 as stated: do_cycle returns true iff the clock time elapsed since
\* cycle_start is at least MCT_ns * (1 + added_cycle), whatever wait_cycle
\* calls happened since; when true it sets cycle_start to the current time
\* and added_cycle to 0.
C10_GateIgnoresWait ==
    tlast.op = "do_cycle"
    => /\ tlast.ret <=> (tlast.t - tlast.cs >= MCT_ns * (1 + tlast.ac))
       /\ tlast.ret => (cycle_start_time_ns = tlast.t2 /\ added_cycle = 0)

\* C10 amended: do_cycle returns true iff the clock time elapsed since
\* cycle_start, less the wait accumulated by wait_cycle since the last true
\* do_cycle, is at least MCT_ns * (1 + added_cycle); when true it sets
\* cycle_start to the current time and added_cycle to 0.
C10_GateExcludesWait ==
    tlast.op = "do_cycle"
    => /\ tlast.ret <=>
            (tlast.t - tlast.cs - tlast.ew >= MCT_ns * (1 + tlast.ac))
       /\ tlast.ret => (cycle_start_time_ns = tlast.t2 /\ added_cycle = 0)

\* do_cycle has returned true after a wait, with added cycles pending and
\* the clock moving during the call
C10_Witness ==
    /\ tlast.op = "do_cycle"
    /\ tlast.ret
    /\ tlast.ew > 0
    /\ tlast.ac > 0
    /\ tlast.t2 > tlast.t

\* C11: minimum cycle time.  Whenever do_cycle returns true, the clock it
\* read is at least MCT_ns * (1 + added_cycle) past cycle_start, added_cycle
\* as the call found it; hence a do_cycle that returns true began at least
\* MCT_ns after the previous do_cycle that returned true began, whatever
\* was called in between, and with added_cycle = 2 at least 3 * MCT_ns past
\* cycle_start.
C11_MinimumCycleTime ==
    [][(tlast'.op = "do_cycle" /\ tlast'.ret /\ tlast' # tlast)
       => /\ tlast'.t - tlast'.cs >= MCT_ns * (1 + tlast'.ac)
          /\ tlast'.cs = cycle_start_time_ns /\ tlast'.ac = added_cycle
          /\ true_at >= 0 => tlast'.t - true_at >= MCT_ns
          /\ tlast'.ac = 2 => tlast'.t - tlast'.cs >= 3 * MCT_ns]_vars

\* do_cycle has returned true a second time, with two added cycles pending
C11_Witness ==
    /\ tlast.op = "do_cycle"
    /\ tlast.ret
    /\ tlast.ac = 2
    /\ tlast.cs > 0
    /\ true_at = tlast.t

\* tlast of a finished wait_cycle call ("wait_done"): t the clock it read
\* into start_wait, t2 the clock when its loop ended, nb its argument.

\* C12: wait_cycle.  Every call wait_cycle(nb) returns only when the clock
\* is at least nb * MCT_ns past the clock the call read when it began,
\* whatever wait_cycle and do_cycle calls came before it.
C12_WaitCycleBlocks ==
    tlast.op = "wait_done" => tlast.t2 - tlast.t >= MCT_ns * tlast.nb

(***************************************************************************)
(* Properties of the loader                                                *)
(***************************************************************************)
\* ld after a load_core_rope call: f the file it was given, n its number of
\* words, cf0, par0, flag0 the fixed memory, the bitmap and the flag the
\* call found.
LoadBytes == LoadFiles(ld.f).bytes

\* a load has returned without an error
Loaded == last.op = "load" /\ last.err = "none"

\* the cell the i-th word of an image goes to, in the order 2, 3, 0, 1, 4,
\* ..., 35 of the banks
PlaceOf(i) ==
    LET k == i \div 1024
    IN  <<IF k = 0 THEN 2 ELSE IF k = 1 THEN 3 ELSE IF k = 2 THEN 0
          ELSE IF k = 3 THEN 1 ELSE k, i % 1024>>

\* the index of the image word that goes to cell c
IndexOf(c) ==
    LET k == IF c[1] = 2 THEN 0 ELSE IF c[1] = 3 THEN 1 ELSE IF c[1] = 0 THEN 2
             ELSE IF c[1] = 1 THEN 3 ELSE c[1]
    IN  k * 1024 + c[2]

\* C13: loader placement.  After a load of an accepted image of n words,
\* the cell of bank order[i div 0o2000] at offset i mod 0o2000 holds the
\* i-th big-endian 16-bit word shifted right by one, a value in 0 ..
\* 0o77777, for every i < n; every other fixed cell holds what it held
\* before the load, and erasable memory is as it was.
C13_LoaderPlacement ==
    Loaded
    => /\ \A i \in 0..(ld.n - 1) :
            LET w == 256 * LoadBytes[2 * i + 1] + LoadBytes[2 * i + 2]
            IN  /\ Peek(common_fixed, PlaceOf(i)) = w \div 2
                /\ Peek(common_fixed, PlaceOf(i)) \in 0..32767
       /\ \A c \in (DOMAIN common_fixed) \cup (DOMAIN ld.cf0) :
            IndexOf(c) >= ld.n => Peek(common_fixed, c) = Peek(ld.cf0, c)
       /\ switched = InitSwitched

\* the 36-bank image has been loaded over a small image: its words are at
\* the ends of banks 0, 2 and 35, and the second word of the small image
\* has been overwritten with 0
C13_Witness ==
    /\ Loaded
    /\ ld.n = 36 * 1024
    /\ Peek(ld.cf0, <<2, 1>>) = 2
    /\ Peek(common_fixed, <<2, 1>>) = 0
    /\ Peek(common_fixed, <<2, 1023>>) = 32767
    /\ Peek(common_fixed, <<0, 33>>) = 1
    /\ Peek(common_fixed, <<35, 1023>>) = 32767

\* the bitmap cell and the bit of the fixed cell c
BitmapCell(c) == (c[1] * 1024 + c[2]) \div 32
BitmapBit(c) == c[2] % 32

\* C14: parity bitmap.  After a load, for every image word whose low bit is
\* 1, placed at (bank, addr), bit addr mod 32 of bitmap cell
\* (bank * 0o2000 + addr) div 32 is set; every bit that is set and was not
\* before the load is the bit of an image word whose low bit is 1; and the
\* fixed cell is recovered from its bitmap cell and bit, so distinct cells
\* have distinct bits.
C14_ParityBitmap ==
    Loaded
    => /\ \A i \in 0..(ld.n - 1) :
            /\ LoadBytes[2 * i + 2] % 2 = 1
               => BitmapBit(PlaceOf(i))
                    \in PeekBits(parities, BitmapCell(PlaceOf(i)))
            /\ 32 * BitmapCell(PlaceOf(i)) + BitmapBit(PlaceOf(i))
                 = PlaceOf(i)[1] * 1024 + PlaceOf(i)[2]
       /\ \A idx \in DOMAIN parities :
            \A bit \in PeekBits(parities, idx) \ PeekBits(ld.par0, idx) :
              LET g == 32 * idx + bit
                  i == IndexOf(<<g \div 1024, g % 1024>>)
              IN  i < ld.n /\ LoadBytes[2 * i + 2] % 2 = 1

\* the 36-bank image has been loaded: bit 1 of cell 1 (bank 0, offset 33)
\* and bit 31 of cell 159 (bank 4, offset 0o1777) are set, bit 31 of cell
\* 95 (bank 2, offset 0o1777, a word without parity) is not
C14_Witness ==
    /\ Loaded
    /\ ld.n = 36 * 1024
    /\ 1 \in PeekBits(parities, 1)
    /\ 31 \in PeekBits(parities, 159)
    /\ 31 \notin PeekBits(parities, 95)

\* C15: parity-seen flag.  When a load of an accepted image returns, through
\* Cpu.load_core_rope or through _cpu_utils.load_core_rope called with the
\* machine's memory, flag and bitmap, and the load has set a bit of the
\* bitmap (a loaded word had its parity bit set), the machine's
\* check_parity_flag is true; and while no bit of the bitmap is set (no
\* word with a parity bit has been loaded) the flag is false.
C15_ParitySeenFlag ==
    /\ [][(last'.op \in {"load", "utils_load"} /\ last'.err = "none"
            /\ parities' # parities) => check_parity_flag']_vars
    /\ [](parities = Zeros => ~check_parity_flag)

\* a load of an existing file, given by a proper path, has returned or raised
LoadEnded ==
    /\ last.op = "load"
    /\ LoadFiles(ld.f).path_ok
    /\ LoadFiles(ld.f).exists

\* the load has changed no fixed cell, no bitmap bit and no flag
LoadNoEffect ==
    /\ common_fixed = ld.cf0
    /\ parities = ld.par0
    /\ check_parity_flag = ld.flag0
    /\ switched = InitSwitched

\* C16: odd image rejected.  A load of a file with an odd number of bytes
\* raises the error of a size that is not even, also when the file is too
\* large as well, and changes no fixed cell, no bitmap bit and no flag.
C16_OddImageRejected ==
    (LoadEnded /\ ld.size % 2 = 1)
    => /\ last.err = "ValueError"
       /\ last.ret = "not even"
       /\ LoadNoEffect

\* a file that is odd and too large has been rejected as odd, by a machine
\* with a loaded image, parity bits and the flag set
C16_Witness ==
    /\ LoadEnded
    /\ ld.size = 2 * (36 * 1024) + 3
    /\ last.ret = "not even"
    /\ common_fixed # Zeros
    /\ parities # Zeros
    /\ check_parity_flag

\* C17: oversized image rejected.  A load of a file with an even number of
\* bytes and more than 36 * 0o2000 words raises the error of a size too big
\* and changes no fixed cell, no bitmap bit and no flag; a load of a file of
\* at most 36 * 0o2000 words, 36 * 0o2000 included, returns without an
\* error after all its words, each of them found in its cell, and without
\* running out of banks.
C17_OversizedImageRejected ==
    (LoadEnded /\ ld.size % 2 = 0)
    => IF ld.size \div 2 > 36 * 1024
       THEN /\ last.err = "ValueError"
            /\ last.ret = "too big"
            /\ LoadNoEffect
       ELSE /\ last.err = "none"
            /\ ld.i = ld.size \div 2
            /\ ~ld.stop
            /\ \A i \in 0..(ld.size \div 2 - 1) :
                 2 * Peek(common_fixed, PlaceOf(i)) + (LoadBytes[2 * i + 2] % 2)
                   = 256 * LoadBytes[2 * i + 1] + LoadBytes[2 * i + 2]

\* an image of 36 * 0o2000 + 1 words has been rejected by a machine that
\* had loaded the image of 36 * 0o2000 words, the last word included
C17_Witness ==
    /\ LoadEnded
    /\ ld.size = 2 * (36 * 1024 + 1)
    /\ last.ret = "too big"
    /\ Peek(ld.cf0, <<35, 1023>>) = 32767
    /\ 31 \in PeekBits(ld.par0, (35 * 1024 + 1023) \div 32)

(***************************************************************************)
(* Properties of the I/O channels                                          *)
(***************************************************************************)
\* C18: I/O overlay aliasing.  In every state channel 1 reads the value the
\* register cell L (erasable address 0o1) reads and channel 2 the value the
\* register cell Q (erasable address 0o2) reads.
C18_IoOverlayAliasing ==
    /\ IoChannel(switched, io, Reg_L) = Get(Loc2(Reg_L, "erasable")).val
    /\ IoChannel(switched, io, Reg_Q) = Get(Loc2(Reg_Q, "erasable")).val

(***************************************************************************)
(* Properties of the interrupt controller, continued                       *)
(***************************************************************************)
\* C19: disabled is terminal under request.  A request made while the
\* controller is disabled returns false and leaves it disabled, however
\* many came before; the only steps that take the controller from disabled
\* to enabled are the interpreter's setting of the flag and a reset, so a
\* request that returns true is never made between a disabling and the
\* next such step.
C19_DisabledIsTerminal ==
    [][/\ (~irq_enable /\ last'.op = "process")
          => (~irq_enable' /\ last'.ret = "False")
       /\ (~irq_enable /\ irq_enable')
          => last'.op \in {"set_enable", "reset"}]_vars

\* a request for the BOOT vector has been denied by a disabled controller,
\* which is still disabled
C19_Witness ==
    /\ last.op = "process"
    /\ last.value = BOOT
    /\ last.ret = "False"
    /\ last.err = "none"
    /\ ~irq_enable

\* the registers the claim names as left alone by a request
FrameRegs == {Reg_ARUPT, Reg_LRUPT, Reg_QRUPT, Reg_BBRUPT,
              Reg_Z, Reg_A, Reg_L, Reg_Q}

CycleRight(v) == (v \div 2) + ((v % 2) * 16384)
CycleLeft(v) == ((2 * v) % 32768) + (v \div 16384)

\* a word has just been written to the erasable address reg
WrittenTo(reg) ==
    /\ LastIsWrite("erasable")
    /\ last.loc.addr = reg
    /\ last.value \in 0..32767

\* C21: CYR rotate on write.  After the word v is written to register CYR,
\* reading CYR returns v cycled right by one bit within 15 bits.
C21_CyrRotateOnWrite ==
    WrittenTo(Reg_CYR)
    => LET r == Get(Loc2(Reg_CYR, "erasable"))
       IN  r.err = "none" /\ r.val = CycleRight(last.value)

\* C22: CYL rotate on read.  After the word v is written to register CYL,
\* reading CYL returns v cycled left by one bit within 15 bits, and does so
\* again on the next read, the stored cell still holding v.
C22_CylRotateOnRead ==
    /\ WrittenTo(Reg_CYL)
       => LET r == Get(Loc2(Reg_CYL, "erasable"))
          IN  /\ r.err = "none" /\ r.val = CycleLeft(last.value)
              /\ Peek(switched, UnswitchedCell(Reg_CYL)) = last.value
    /\ (last.op = "read" /\ last.err = "none" /\ last.loc.type = "erasable"
          /\ last.loc.addr = Reg_CYL)
       => Get(last.loc).val = last.val

\* C23: EDOP on write.  After the word v is written to register EDOP,
\* reading EDOP returns v shifted right by 7 bits with the top 8 bits zero,
\* a value in 0 .. 0o177.
C23_EdopOnWrite ==
    WrittenTo(Reg_EDOP)
    => LET r == Get(Loc2(Reg_EDOP, "erasable"))
       IN  /\ r.err = "none"
           /\ r.val = (last.value \div 128) % 128
           /\ r.val \in 0..127

(***************************************************************************)
(* Properties of the common-fixed banks 36 to 39                           *)
(***************************************************************************)
\* the cells of common-fixed banks 36 to 39 that are not zero
HighCells(cf) == {c \in DOMAIN cf : c[1] \in 36..39}

\* C24 as stated: in every state every cell of the common-fixed banks 36 to
\* 39 reads zero.
C24_HighBanksReadZero ==
    \A b \in 36..39, a \in {0, 1023} :
        Get(Loc3(b, a, "fixed")).val = 0

\* C24 amended: the cells of the common-fixed banks 36 to 39 are zero after
\* construction, and no load and no reset changes one of them; a cell of
\* these banks changes only by a memory write addressed to it.
C24_HighBanksChangeOnlyByWrite ==
    /\ HighCells(common_fixed) = {}
    /\ [][\A c \in HighCells(common_fixed) \cup HighCells(common_fixed') :
            Peek(common_fixed', c) # Peek(common_fixed, c)
            => /\ last'.op = "write"
               /\ last'.loc.type = "fixed"
               /\ <<last'.loc.bank, last'.loc.addr>> = c]_vars

\* an image has been loaded by a machine whose bank 36 had been written:
\* the written word is still there
C24_Witness ==
    /\ last.op = "load"
    /\ last.err = "none"
    /\ Peek(common_fixed, <<2, 0>>) # 0
    /\ Peek(common_fixed, <<36, 0>>) = 1

(***************************************************************************)
(* Properties of the interrupt controller: atomicity                       *)
(***************************************************************************)
\* C25: dispatch is all-or-nothing.  Whatever a request(V) returns or
\* raises, either it returns true with ZRUPT = the old Z, BRUPT = the word
\* Z addressed, B = V and the controller disabled, or it does not return
\* true and no erasable or fixed cell, nor B, nor the enable flag has
\* changed; so no request leaves the controller disabled without the saves.
C25_DispatchAllOrNothing ==
    [][last'.op = "process"
       => LET P == Peek(switched, UnswitchedCell(Reg_Z))
              W == IF P \in 0..(unswitched_len - 1)
                   THEN Peek(switched, UnswitchedCell(P))
                   ELSE IF P \in (2 * fixed_words)..(4 * fixed_words - 1)
                   THEN Peek(common_fixed,
                             FixedFixedCell(P - (2 * fixed_words)))
                   ELSE 0
          IN  \/ /\ last'.ret = "True"
                 /\ Peek(switched', UnswitchedCell(Reg_ZRUPT)) = P
                 /\ Peek(switched', UnswitchedCell(Reg_BRUPT)) = W
                 /\ reg_B' = last'.value
                 /\ ~irq_enable'
              \/ /\ last'.ret # "True"
                 /\ UNCHANGED <<switched, common_fixed, reg_B,
                                irq_enable>>]_vars

\* a request made to the enabled controller has raised an error: the
\* controller is still enabled, B and ZRUPT are as they were, Z holding a
\* word that is not ZRUPT's
C25_Witness ==
    /\ last.op = "process"
    /\ last.err = "TypeError"
    /\ last.value = T6RUPT
    /\ irq_enable
    /\ reg_B = 0
    /\ Peek(switched, UnswitchedCell(Reg_Z)) = 1
    /\ Peek(switched, UnswitchedCell(Reg_ZRUPT)) = 0

(***************************************************************************)
(* Properties of the timer, continued                                      *)
(***************************************************************************)
\* C26: wait time is excluded from the cycle.  do_cycle returns true iff
\* the clock it reads, less cycle_start and less elapsed_wait (the time
\* wait_cycle has stored since the last true do_cycle), is at least
\* MCT_ns * (1 + added_cycle); a true result leaves elapsed_wait at zero,
\* a false one leaves it as it was.
C26_WaitExcludedFromCycle ==
    tlast.op = "do_cycle"
    => /\ tlast.ret <=>
            ((tlast.t - tlast.cs) - tlast.ew >= MCT_ns * (1 + tlast.ac))
       /\ tlast.ret => elapsed_wait = 0
       /\ ~tlast.ret => elapsed_wait = tlast.ew

\* do_cycle has returned true two machine cycles or more after cycle_start,
\* one of them or more spent in wait_cycle, and has reset elapsed_wait
C26_Witness ==
    /\ tlast.op = "do_cycle"
    /\ tlast.ret
    /\ tlast.ac = 0
    /\ tlast.ew >= MCT_ns
    /\ tlast.t - tlast.cs >= 2 * MCT_ns
    /\ elapsed_wait = 0

\* C27: scheduler liveness.  Under a clock that keeps advancing, every
\* wait_cycle call of the loop of Cpu.run returns, and do_cycle returns
\* true again and again: cycles are executed infinitely often.
C27_SchedulerLiveness ==
    /\ (tpc = "wait") ~> (tpc = "idle")
    /\ []<>(tlast.op = "do_cycle" /\ tlast.ret)

\* do_cycle has returned true again, after a cycle with a wait of two
\* machine cycles and two added cycles
C27_Witness ==
    /\ tlast.op = "do_cycle"
    /\ tlast.ret
    /\ tlast.ac = 2
    /\ tlast.ew >= 2 * MCT_ns
    /\ wait_nb = 2

\* the cells of array a whose value the step changes
ChangedCells(a, b) ==
    {c \in (DOMAIN a) \cup (DOMAIN b) : Peek(a, c) # Peek(b, c)}

\* C28: write frame.  A successful memory write changes no cell but the
\* one written, which then holds the value: an erasable write leaves
\* common_fixed as it was and a fixed write leaves switched as it was, a
\* write through the unswitched path changes no cell of the switched banks
\* 3 .. 7, and a bank-less fixed write changes no cell of a common-fixed
\* bank other than 2 and 3.
C28_WriteFrame ==
    [][(last'.op = "write" /\ last'.err = "none")
       => LET loc == last'.loc
              sw == ChangedCells(switched, switched')
              cf == ChangedCells(common_fixed, common_fixed')
          IN  /\ Cardinality(sw) + Cardinality(cf) <= 1
              /\ loc.type \in {"erasable", "fixed"}
              /\ loc.type = "erasable"
                 => /\ cf = {}
                    /\ sw \subseteq {last'.cell}
                    /\ Peek(switched', last'.cell) = last'.value
              /\ loc.type = "fixed"
                 => /\ sw = {}
                    /\ cf \subseteq {last'.cell}
                    /\ Peek(common_fixed', last'.cell) = last'.value
              /\ (loc.type = "erasable" /\ NotBank(loc))
                 => \A c \in sw : c[1] \in 0..2
              /\ (loc.type = "fixed" /\ BankIsNone(loc))
                 => \A c \in cf : c[1] \in {2, 3}
              /\ UNCHANGED <<parities, extracode_flag, check_parity_flag,
                             irq_enable, reg_B>>]_vars

\* 1 has just been written at the bank-less fixed address 0o2000 while a
\* cell of switched bank 3 holds 1
C28_Witness ==
    /\ LastIsWrite("fixed")
    /\ last.loc.len = 2
    /\ last.loc.addr = fixed_words
    /\ last.value = 1
    /\ Peek(common_fixed, last.cell) = 1
    /\ Peek(switched, <<3, erasable_words - 1>>) = 1

\* C29: image overflow is unreachable.  During and after the load of an
\* image of even length and at most 36 * 0o2000 words, next(banks_iter) has
\* never raised StopIteration, at most 36 banks have been taken, and the
\* word written last, word i - 1, went to the cell of its own index, which
\* no other index of the image has; the load ends without error after the
\* last word.
C29_NoImageOverflow ==
    (/\ ld.count > 0
     /\ ld.size % 2 = 0
     /\ ld.size \div 2 <= 36 * 1024)
    => /\ ~ld.stop
       /\ ld.it <= 36
       /\ ld.i <= ld.n
       /\ ld.i > 0 => /\ <<ld.bank, ld.addr - 1>> = PlaceOf(ld.i - 1)
                      /\ IndexOf(<<ld.bank, ld.addr - 1>>) = ld.i - 1
                      /\ ld.bank \in 0..35
                      /\ ld.addr - 1 \in 0..1023
       /\ LoadEnded => last.err = "none" /\ ld.i = ld.n

\* the image of 36 * 0o2000 words has been loaded: the 36th bank of the
\* order, bank 35, is full
C29_Witness ==
    /\ Loaded
    /\ ld.n = 36 * 1024
    /\ ld.i = ld.n
    /\ ld.it = 36
    /\ ld.bank = 35
    /\ ld.addr = 1024
    /\ ~ld.stop

\* the bits of the bitmap that are set, as pairs <<cell, bit>>
BitmapBits(par) == UNION {{<<idx, b>> : b \in par[idx]} : idx \in DOMAIN par}

\* the parity bits of an image: the bit of the place of every word whose
\* low bit is 1
ImageParityBits(bytes) ==
    {<<BitmapCell(PlaceOf(i)), BitmapBit(PlaceOf(i))>> :
        i \in {j \in 0..(Len(bytes) \div 2 - 1) : bytes[2 * j + 2] % 2 = 1}}

\* the words of the image are in the fixed cells of their places
ImageIn(bytes, cf) ==
    \A i \in 0..(Len(bytes) \div 2 - 1) :
      Peek(cf, PlaceOf(i)) = (256 * bytes[2 * i + 1] + bytes[2 * i + 2]) \div 2

\* C30: the parity bitmap is monotonic.  No step clears a bit of the bitmap;
\* a reset leaves the bitmap as it is; and a load that returns leaves the
\* bits that were set, set, and sets the parity bits of its image, so that
\* after the loads of X and of Y the bitmap is the OR of the parity bits of
\* both, also where a word of Y has parity 0.
C30_ParityMonotonic ==
    [][/\ BitmapBits(parities) \subseteq BitmapBits(parities')
       /\ last'.op = "reset" => parities' = parities
       /\ (last.op = "idle" /\ last'.op \in {"load", "utils_load"}
             /\ last'.err = "none")
          => \E f \in Files :
               /\ f.path_ok /\ f.exists
               /\ Len(f.bytes) = last'.value
               /\ ImageIn(f.bytes, common_fixed')
               /\ BitmapBits(parities')
                    = BitmapBits(parities) \cup ImageParityBits(f.bytes)]_vars

\* the image of one word without parity has been loaded over the image of
\* two words with parity: bits 0 and 1 of the cell of bank 2, offsets 0 and
\* 1, are still set
C30_Witness ==
    /\ last.op = "load"
    /\ last.err = "none"
    /\ last.value = 2
    /\ Peek(common_fixed, <<2, 0>>) = 1
    /\ Peek(common_fixed, <<2, 1>>) = 2
    /\ BitmapBits(parities) = {<<64, 0>>, <<64, 1>>}

\* C31: cycle gating.  In the loop of Cpu.run the work of a cycle (the
\* assignment of added_cycle and _execute_cycle) is done only after the
\* wait_cycle that follows a do_cycle that returned True, and a do_cycle
\* that returned True is followed by that work before do_cycle is called
\* again: once for each True.  A do_cycle that returns False changes no
\* memory cell, no register, no flag and no state of the interrupts.
C31_CycleGating ==
    /\ [][(tlast'.op = "set_added" /\ tlast' # tlast)
            => tlast.op = "wait_done"]_vars
    /\ [][(tlast'.op = "wait_done" /\ tlast' # tlast)
            => tlast.op = "wait_cycle"]_vars
    /\ [][(tlast'.op = "wait_cycle" /\ tlast' # tlast)
            => (tlast.op = "do_cycle" /\ tlast.ret)]_vars
    /\ [][(tlast'.op = "do_cycle" /\ tlast' # tlast)
            => \/ tlast.op \in {"init", "set_added"}
               \/ tlast.op = "do_cycle" /\ ~tlast.ret]_vars
    /\ [][(tlast'.op = "do_cycle" /\ ~tlast'.ret)
            => UNCHANGED <<switched, common_fixed, parities, extracode_flag,
                           check_parity_flag, irq_enable, reg_B, io>>]_vars
    /\ (tlast.op = "do_cycle" /\ tlast.ret) ~> (tlast.op = "set_added")

\* the work of a cycle has been done, after do_cycle returned True and a
\* wait of one machine cycle
C31_Witness ==
    /\ tlast.op = "set_added"
    /\ wait_nb = 1
    /\ added_cycle = 1
    /\ elapsed_wait >= MCT_ns

\* C32: a do_cycle that returns False is a no-op on the state the timer
\* tracks: cycle_start_time_ns, added_cycle and elapsed_wait (and
\* total_cycle_time) keep the values they had before the call.
C32_FalseIsNoOp ==
    [][(tlast'.op = "do_cycle" /\ ~tlast'.ret)
       => /\ cycle_start_time_ns' = cycle_start_time_ns
          /\ added_cycle' = added_cycle
          /\ elapsed_wait' = elapsed_wait
          /\ total_cycle_time' = total_cycle_time
          /\ tlast'.cs = cycle_start_time_ns
          /\ tlast'.ac = added_cycle
          /\ tlast'.ew = elapsed_wait]_vars

\* do_cycle has returned False in a cycle that started after time 0, with
\* two added cycles and a wait stored
C32_Witness ==
    /\ tlast.op = "do_cycle"
    /\ ~tlast.ret
    /\ cycle_start_time_ns > 0
    /\ added_cycle = 2
    /\ elapsed_wait >= MCT_ns
    /\ elapsed_time_ns > 0

\* C33: run-loop pacing.  In the loop of Cpu.run, a do_cycle that returns
\* True after an earlier one (a wait_cycle has been made since) reads a
\* clock at least MCT_ns * wait_nb + MCT_ns * (1 + added_cycle) past the
\* clock the earlier one read: with wait_cycle(1) and added_cycle = 1, as
\* in Cpu.run, at least 3 * MCT_ns.
C33_RunLoopPacing ==
    [][(tlast'.op = "do_cycle" /\ tlast'.ret /\ tlast' # tlast /\ wait_nb > 0)
       => /\ now - true_at
               >= MCT_ns * wait_nb + MCT_ns * (1 + added_cycle)
          /\ (wait_nb = 1 /\ added_cycle = 1)
             => now - true_at >= 3 * MCT_ns]_vars

\* in the loop, do_cycle has returned True again after wait_cycle(1) and
\* added_cycle = 1, three machine cycles or more after cycle_start
C33_Witness ==
    /\ tlast.op = "do_cycle"
    /\ tlast.ret
    /\ tlast.ac = 1
    /\ wait_nb = 1
    /\ tlast.ew >= MCT_ns
    /\ tlast.t - tlast.cs >= 3 * MCT_ns

\* the state of a machine just constructed: Z reads 0o4000, no other
\* erasable cell and no fixed cell holds anything but 0, no bit of the
\* bitmap is set, the two flags are false and the interrupts are enabled
Constructed ==
    /\ Get(Loc2(Reg_Z, "erasable")).err = "none"
    /\ Get(Loc2(Reg_Z, "erasable")).val = 2048
    /\ Get(Loc3(0, Reg_Z, "erasable")).val = 2048
    /\ DOMAIN switched = {<<0, 5>>}
    /\ DOMAIN common_fixed = {}
    /\ BitmapBits(parities) = {}
    /\ extracode_flag = FALSE
    /\ check_parity_flag = FALSE
    /\ irq_enable = TRUE

\* C34: initial state.  On construction Z holds 0o4000, the address of
\* BOOT, every other erasable cell and every fixed cell holds 0, the
\* bitmap is 0, the extracode and parity flags are false and the interrupts
\* are enabled; the machine stays so until a write, a load, a reset or an
\* assignment of a flag or of the enable changes it.
C34_InitialState ==
    /\ Constructed
    /\ [][(Constructed /\ ~Constructed')
            => last'.op \in {"write", "load", "utils_load", "reset",
                             "set_enable", "set_extracode"}]_vars

\* Z has been read on the machine as constructed, and reads 0o4000
C34_Witness ==
    /\ Constructed
    /\ last.op = "read"
    /\ last.loc = Loc2(Reg_Z, "erasable")
    /\ last.err = "none"
    /\ last.val = BOOT
    /\ ld.count = 0

\* the accesses that are to be rejected: a location that is not a tuple of
\* 2 or 3 elements, an unknown region, a negative address, a bank-less
\* erasable address outside 0 .. 0o1377, a bank or an address outside the
\* range of its region (8 banks of 0o400 erasable words, 40 banks of 0o2000
\* fixed words)
ToBeRejected(loc) ==
    \/ ~loc.tuple
    \/ loc.len \notin {2, 3}
    \/ loc.type \notin {"erasable", "fixed"}
    \/ loc.isint /\ loc.addr < 0
    \/ /\ loc.type = "erasable" /\ loc.len = 2 /\ loc.isint
       /\ loc.addr \notin 0..(unswitched_len - 1)
    \/ /\ loc.type = "erasable" /\ loc.len = 3 /\ loc.isint
       /\ \/ loc.bank \notin 0..(switched_banks - 1)
          \/ loc.addr \notin 0..(erasable_words - 1)
    \/ /\ loc.type = "fixed" /\ loc.len = 3 /\ loc.isint
       /\ \/ loc.bank \notin 0..(common_fixed_banks - 1)
          \/ loc.addr \notin 0..(fixed_words - 1)

\* C35: rejected accesses have no effect.  Every read or write of a
\* location that is to be rejected raises an error and leaves every
\* erasable and every fixed cell as it was.
C35_RejectedNoEffect ==
    [][(last'.op \in {"read", "write"} /\ last' # last
          /\ ToBeRejected(last'.loc))
       => /\ last'.err # "none"
          /\ switched' = switched
          /\ common_fixed' = common_fixed]_vars

\* the channel array as _IO_channels.__init__ leaves it
ChannelAsBuilt(ch) ==
    /\ DOMAIN ch.channel \subseteq 0..(channel_len - 1)
    /\ \A i \in 0..(channel_len - 1) :
         Peek(ch.channel, i) = IF i \in 24..27 THEN 16383 ELSE 0

\* C36: I/O overlay initial values.  After construction the channel cells
\* 0o30, 0o31, 0o32 and 0o33 hold 0o37777 and every other cell of the array
\* of 0o1000 cells holds 0; the array stays so until a cell of it is
\* written.
C36_IoInitialValues ==
    /\ ChannelAsBuilt(io)
    /\ [][(ChannelAsBuilt(io) /\ ~ChannelAsBuilt(io'))
            => (last'.op = "io_set" /\ last'.err = "none")]_vars

\* the channel array is as built after writes through channel 1 and a
\* reset: 0o33 holds 0o37777, 0o34 holds 0
C36_Witness ==
    /\ ChannelAsBuilt(io)
    /\ last.op = "reset"
    /\ io.shared = FALSE
    /\ Peek(io.channel, 27) = 16383
    /\ Peek(io.channel, 28) = 0

====
